---- MODULE Spec2Model ----
(***************************************************************************)
(* veccentric: the generic two-component vector Vecc<T> (src/src/vecc.rs), *)
(* its f64 instance Fecc (src/src/fecc.rs) and the Angle wrapper           *)
(* (src/src/angle.rs).                                                     *)
(*                                                                         *)
(* The library is a set of pure functions and in-place operators on value  *)
(* types.  The state machine is a caller that holds one vector `vec` of    *)
(* component type `elem`, calls one operation after the other on it and    *)
(* keeps the result of the last call in `out`; a second caller (SpecAngle) *)
(* holds a quantity `qty` that it converts with Angular::rad/deg and hands *)
(* to the Fecc methods that take an angle.  A third machine (SpecEngine)   *)
(* is the frame loop of the examples: a `vehicle` moved by Vehicle::step   *)
(* and drawn into the frame buffer `pixels`.                               *)
(*                                                                         *)
(* Numbers.  T = i32 is modelled by the integers, on inputs small enough   *)
(* that no i32 operation overflows.  f64 is modelled by exact rationals    *)
(* n/d in lowest terms, extended with the IEEE values +Inf (1/0),          *)
(* -Inf (-1/0) and NaN (0/0); every f64 is itself such a rational.  The    *)
(* rounding of f64 results and the sign of zero are not modelled: sqrt and *)
(* the trigonometric functions are evaluated only at arguments where the   *)
(* exact result is rational.                                               *)
(***************************************************************************)
EXTENDS Integers, Sequences, FiniteSets, TLC

VARIABLES elem, vec, op, form, before, arg, arg2, out, bare, qty, conv,
          vehicle, pixels, frames

vars ==
    <<elem, vec, op, form, before, arg, arg2, out, bare, qty, conv,
      vehicle, pixels, frames>>

(***************************************************************************)
(* Bounds of the model.                                                    *)
(***************************************************************************)
\* vector components of the caller's operands range over -MaxCoord..MaxCoord
MaxCoord == 4

\* scalar operands range over -MaxScalar..MaxScalar, and 5, 10 and 5/2
MaxScalar == 2

\* the components of a vector operand are -MaxRhs, 0, MaxRhs or 10
MaxRhs == 2

\* the components of the bounds handed to clamp range over -MaxBound..MaxBound
MaxBound == 1

\* the number of Angular conversions the caller applies to one quantity
MaxConv == 2

\* cos and sin are evaluated at the multiples of PI/2 up to MaxTurns quarter
\* turns either way
MaxTurns == 4

\* the number of frames an example simulation is followed for
MaxFrames == 2

(***************************************************************************)
(* Outcome of a call: a returned value, or a panic (Rust's runtime         *)
(* failure: the call returns nothing and the thread unwinds).              *)
(***************************************************************************)
Ok(value) == [panic |-> FALSE, val |-> value]

Panic == [panic |-> TRUE]

(***************************************************************************)
(* i32 arithmetic (core::ops for i32).                                     *)
(***************************************************************************)
Abs(i) == IF i < 0 THEN -i ELSE i

Sign(i) == IF i < 0 THEN -1 ELSE IF i > 0 THEN 1 ELSE 0

\* i32 `/` truncates toward zero
TruncDiv(i, j) == Sign(i) * Sign(j) * (Abs(i) \div Abs(j))

\* i32 `%` is the truncating remainder: the result has the sign of the dividend
TruncRem(i, j) == i - j * TruncDiv(i, j)

(***************************************************************************)
(* f64 arithmetic on rationals extended with +Inf, -Inf and NaN.           *)
(***************************************************************************)
RECURSIVE GCD(_, _)
GCD(i, j) == IF j = 0 THEN i ELSE GCD(j, i % j)

\* the f64 value n/d; d = 0 gives +Inf, -Inf or NaN by the sign of n
Frac(n, d) ==
    IF d = 0 THEN [n |-> Sign(n), d |-> 0]
    ELSE LET g == GCD(Abs(n), Abs(d))
         IN  [n |-> (Sign(d) * n) \div g, d |-> Abs(d) \div g]

F(i) == [n |-> i, d |-> 1]

NaN == [n |-> 0, d |-> 0]

PosInf == [n |-> 1, d |-> 0]

NegInf == [n |-> -1, d |-> 0]

IsNaN(p) == p.n = 0 /\ p.d = 0

IsFinite(p) == p.d # 0

FNeg(p) == [n |-> -p.n, d |-> p.d]

FAbs(p) == [n |-> Abs(p.n), d |-> p.d]

FAdd(p, q) ==
    IF IsNaN(p) \/ IsNaN(q) THEN NaN
    ELSE IF p.d = 0 /\ q.d = 0 THEN (IF p.n = q.n THEN p ELSE NaN)
    ELSE IF p.d = 0 THEN p
    ELSE IF q.d = 0 THEN q
    ELSE Frac(p.n * q.d + q.n * p.d, p.d * q.d)

FSub(p, q) == FAdd(p, FNeg(q))

FMul(p, q) == Frac(p.n * q.n, p.d * q.d)

FDiv(p, q) ==
    IF IsNaN(p) \/ IsNaN(q) THEN NaN
    ELSE IF q.d = 0 THEN (IF p.d = 0 THEN NaN ELSE F(0))
    ELSE IF q.n = 0 THEN [n |-> Sign(p.n), d |-> 0]
    ELSE IF p.d = 0 THEN [n |-> p.n * Sign(q.n), d |-> 0]
    ELSE Frac(p.n * q.d, p.d * q.n)

\* IEEE comparisons: every comparison with NaN is false
FEq(p, q) == ~IsNaN(p) /\ ~IsNaN(q) /\ p = q

FLt(p, q) ==
    /\ ~IsNaN(p)
    /\ ~IsNaN(q)
    /\ p # q
    /\ IF p.d = 0 THEN p.n < 0
       ELSE IF q.d = 0 THEN q.n > 0
       ELSE p.n * q.d < q.n * p.d

FGt(p, q) == FLt(q, p)

FLe(p, q) == FLt(p, q) \/ FEq(p, q)

FGe(p, q) == FLe(q, p)

\* the integer part of a finite f64 (f64::trunc)
FTrunc(p) == Sign(p.n) * (Abs(p.n) \div p.d)

\* f64 `%` (fmod): the truncating remainder, with the sign of the dividend
FRem(p, q) ==
    IF IsNaN(p) \/ IsNaN(q) \/ p.d = 0 \/ q.n = 0 THEN NaN
    ELSE IF q.d = 0 THEN p
    ELSE FSub(p, FMul(q, F(FTrunc(FDiv(p, q)))))

\* f64::rem_euclid: r = self % rhs; if r < 0.0 { r + rhs.abs() } else { r }
rem_euclid(p, q) ==
    LET r == FRem(p, q)
    IN  IF FLt(r, F(0)) THEN FAdd(r, FAbs(q)) ELSE r

\* the greatest r with r * r <= k
RECURSIVE ISqrtFloor(_)
ISqrtFloor(k) ==
    IF k < 2 THEN k
    ELSE LET s == 2 * ISqrtFloor(k \div 4)
         IN  IF (s + 1) * (s + 1) > k THEN s ELSE s + 1

IsSquare(k) == ISqrtFloor(k) * ISqrtFloor(k) = k

ISqrt(k) == ISqrtFloor(k)

\* f64::sqrt, where the root is rational
FSqrt(p) ==
    IF IsNaN(p) \/ p.n < 0 THEN NaN
    ELSE IF p.d = 0 THEN p
    ELSE [n |-> ISqrt(p.n), d |-> ISqrt(p.d)]

(***************************************************************************)
(* The component type T of Vecc<T>: "i32" or "f64".  Each T_* is the        *)
(* operator trait of T that the generic impl calls on one component.       *)
(***************************************************************************)
T_add(T, x, y) == IF T = "i32" THEN Ok(x + y) ELSE Ok(FAdd(x, y))

T_sub(T, x, y) == IF T = "i32" THEN Ok(x - y) ELSE Ok(FSub(x, y))

T_mul(T, x, y) == IF T = "i32" THEN Ok(x * y) ELSE Ok(FMul(x, y))

T_neg(T, x) == IF T = "i32" THEN Ok(-x) ELSE Ok(FNeg(x))

\* i32 `/` panics on a zero divisor ("attempt to divide by zero"); f64 `/`
\* returns Inf or NaN
T_div(T, x, y) ==
    IF T = "i32" THEN (IF y = 0 THEN Panic ELSE Ok(TruncDiv(x, y)))
    ELSE Ok(FDiv(x, y))

\* a Rem for T that is the Euclidean modulo (i32::rem_euclid, f64::rem_euclid)
T_rem_euclid(T, x, y) ==
    IF T = "i32" THEN (IF y = 0 THEN Panic ELSE Ok(x % Abs(y)))
    ELSE Ok(rem_euclid(x, y))

\* T::rem: i32 `%` panics on a zero divisor; f64 `%` is fmod
T_rem(T, x, y) ==
    IF T = "i32" THEN (IF y = 0 THEN Panic ELSE Ok(TruncRem(x, y)))
    ELSE Ok(FRem(x, y))

\* auto trait Notf64; impl !Notf64 for f64
Notf64(T) == T # "f64"

\* Ord::min, Ord::max
Ord_min(x, y) == IF y < x THEN y ELSE x

Ord_max(x, y) == IF y < x THEN x ELSE y

\* Ord::clamp: assert!(min <= max), then the comparison chain
Ord_clamp(x, lo, hi) ==
    IF ~(lo <= hi) THEN Panic
    ELSE IF x < lo THEN Ok(lo)
    ELSE IF x > hi THEN Ok(hi)
    ELSE Ok(x)

\* f64::min, f64::max: a NaN operand loses
f64_min(x, y) == IF IsNaN(x) THEN y ELSE IF IsNaN(y) THEN x ELSE IF FLt(y, x) THEN y ELSE x

f64_max(x, y) == IF IsNaN(x) THEN y ELSE IF IsNaN(y) THEN x ELSE IF FLt(x, y) THEN y ELSE x

\* f64::clamp: assert!(min <= max), false also when a bound is NaN
f64_clamp(x, lo, hi) ==
    IF ~FLe(lo, hi) THEN Panic
    ELSE IF FLt(x, lo) THEN Ok(lo)
    ELSE IF FGt(x, hi) THEN Ok(hi)
    ELSE Ok(x)

\* f64::floor, f64::ceil, f64::round (ties away from zero) of a finite value
f64_floor(p) == F(p.n \div p.d)

f64_ceil(p) == F(-((-p.n) \div p.d))

\* a round that sends every tie up
f64_round_half_up(p) == F((2 * p.n + p.d) \div (2 * p.d))

f64_round(p) == F(Sign(p.n) * ((2 * Abs(p.n) + p.d) \div (2 * p.d)))

\* Vecc { x: .., y: .. } of two component results: a panic while computing
\* either component is a panic of the call
MkVecc(rx, ry) ==
    IF rx.panic \/ ry.panic THEN Panic ELSE Ok([x |-> rx.val, y |-> ry.val])

(***************************************************************************)
(* Vecc<T>: unary operators (vecc.rs).                                     *)
(***************************************************************************)
neg_owned(T, self) == MkVecc(T_neg(T, self.x), T_neg(T, self.y))

neg_borrowed(T, self) == MkVecc(T_neg(T, self.x), T_neg(T, self.y))

(***************************************************************************)
(* Vecc<T>: binary operators, one definition per impl (vecc.rs).           *)
(***************************************************************************)
add_owned_owned(T, self, rhs) ==
    MkVecc(T_add(T, self.x, rhs.x), T_add(T, self.y, rhs.y))

add_owned_borrowed(T, self, rhs) ==
    MkVecc(T_add(T, self.x, rhs.x), T_add(T, self.y, rhs.y))

add_borrowed_owned(T, self, rhs) ==
    MkVecc(T_add(T, self.x, rhs.x), T_add(T, self.y, rhs.y))

add_borrowed_borrowed(T, self, rhs) ==
    MkVecc(T_add(T, self.x, rhs.x), T_add(T, self.y, rhs.y))

sub_owned_owned(T, self, rhs) ==
    MkVecc(T_sub(T, self.x, rhs.x), T_sub(T, self.y, rhs.y))

\* a borrowed right-hand side subtracted from, instead of subtracted
sub_owned_borrowed_reversed(T, self, rhs) ==
    MkVecc(T_sub(T, rhs.x, self.x), T_sub(T, rhs.y, self.y))

sub_owned_borrowed(T, self, rhs) ==
    MkVecc(T_sub(T, self.x, rhs.x), T_sub(T, self.y, rhs.y))

sub_borrowed_owned(T, self, rhs) ==
    MkVecc(T_sub(T, self.x, rhs.x), T_sub(T, self.y, rhs.y))

sub_borrowed_borrowed(T, self, rhs) ==
    MkVecc(T_sub(T, self.x, rhs.x), T_sub(T, self.y, rhs.y))

mul_owned_owned(T, self, rhs) ==
    MkVecc(T_mul(T, self.x, rhs), T_mul(T, self.y, rhs))

mul_owned_borrowed(T, self, rhs) ==
    MkVecc(T_mul(T, self.x, rhs), T_mul(T, self.y, rhs))

mul_borrowed_owned(T, self, rhs) ==
    MkVecc(T_mul(T, self.x, rhs), T_mul(T, self.y, rhs))

mul_borrowed_borrowed(T, self, rhs) ==
    MkVecc(T_mul(T, self.x, rhs), T_mul(T, self.y, rhs))

div_owned_owned(T, self, rhs) ==
    MkVecc(T_div(T, self.x, rhs), T_div(T, self.y, rhs))

div_owned_borrowed(T, self, rhs) ==
    MkVecc(T_div(T, self.x, rhs), T_div(T, self.y, rhs))

div_borrowed_owned(T, self, rhs) ==
    MkVecc(T_div(T, self.x, rhs), T_div(T, self.y, rhs))

div_borrowed_borrowed(T, self, rhs) ==
    MkVecc(T_div(T, self.x, rhs), T_div(T, self.y, rhs))

\* Rem<Vecc<T>> for Vecc<T>, T: Rem + Notf64
rem_owned_owned(T, self, rhs) ==
    MkVecc(T_rem(T, self.x, rhs.x), T_rem(T, self.y, rhs.y))

rem_owned_borrowed(T, self, rhs) ==
    MkVecc(T_rem(T, self.x, rhs.x), T_rem(T, self.y, rhs.y))

rem_borrowed_owned(T, self, rhs) ==
    MkVecc(T_rem(T, self.x, rhs.x), T_rem(T, self.y, rhs.y))

rem_borrowed_borrowed(T, self, rhs) ==
    MkVecc(T_rem(T, self.x, rhs.x), T_rem(T, self.y, rhs.y))

\* Rem<T> for Vecc<T>, T: Rem + Notf64
rem_t_owned_owned(T, self, rhs) ==
    MkVecc(T_rem(T, self.x, rhs), T_rem(T, self.y, rhs))

rem_t_owned_borrowed(T, self, rhs) ==
    MkVecc(T_rem(T, self.x, rhs), T_rem(T, self.y, rhs))

rem_t_borrowed_owned(T, self, rhs) ==
    MkVecc(T_rem(T, self.x, rhs), T_rem(T, self.y, rhs))

rem_t_borrowed_borrowed(T, self, rhs) ==
    MkVecc(T_rem(T, self.x, rhs), T_rem(T, self.y, rhs))

\* RemAssign for Vecc<T>: the value self holds after the call
rem_assign_owned(T, self, rhs) ==
    MkVecc(T_rem(T, self.x, rhs.x), T_rem(T, self.y, rhs.y))

rem_assign_borrowed(T, self, rhs) ==
    MkVecc(T_rem(T, self.x, rhs.x), T_rem(T, self.y, rhs.y))

rem_assign_t_owned(T, self, rhs) ==
    MkVecc(T_rem(T, self.x, rhs), T_rem(T, self.y, rhs))

rem_assign_t_borrowed(T, self, rhs) ==
    MkVecc(T_rem(T, self.x, rhs), T_rem(T, self.y, rhs))

\* AddAssign, SubAssign, MulAssign<T>, DivAssign<T> for Vecc<T>, by an owned and
\* by a borrowed right-hand side: the value self holds after the call
add_assign_owned(T, self, rhs) ==
    MkVecc(T_add(T, self.x, rhs.x), T_add(T, self.y, rhs.y))

add_assign_borrowed(T, self, rhs) ==
    MkVecc(T_add(T, self.x, rhs.x), T_add(T, self.y, rhs.y))

sub_assign_owned(T, self, rhs) ==
    MkVecc(T_sub(T, self.x, rhs.x), T_sub(T, self.y, rhs.y))

sub_assign_borrowed(T, self, rhs) ==
    MkVecc(T_sub(T, self.x, rhs.x), T_sub(T, self.y, rhs.y))

\* a borrowed scalar applied to x only
mul_assign_borrowed_x_only(T, self, rhs) ==
    MkVecc(T_mul(T, self.x, rhs), Ok(self.y))

mul_assign_owned(T, self, rhs) ==
    MkVecc(T_mul(T, self.x, rhs), T_mul(T, self.y, rhs))

mul_assign_borrowed(T, self, rhs) ==
    MkVecc(T_mul(T, self.x, rhs), T_mul(T, self.y, rhs))

div_assign_owned(T, self, rhs) ==
    MkVecc(T_div(T, self.x, rhs), T_div(T, self.y, rhs))

div_assign_borrowed(T, self, rhs) ==
    MkVecc(T_div(T, self.x, rhs), T_div(T, self.y, rhs))

(***************************************************************************)
(* Which impl a call resolves to, by the ownership of its two operands.    *)
(***************************************************************************)
Forms == {"owned_owned", "owned_borrowed", "borrowed_owned", "borrowed_borrowed"}

AssignForms == {"owned", "borrowed"}

\* the right-hand side types of the impls of Mul and of Div for Vecc<T> and
\* &Vecc<T>: a number, owned or borrowed
Mul_Rhs == {"T", "&T"}

Div_Rhs == {"T", "&T"}

\* the type of a right-hand side that is a vector, in each form
VectorRhs(f) ==
    IF f \in {"owned_owned", "borrowed_owned"} THEN "Vecc<T>" ELSE "&Vecc<T>"

\* what the compiler answers to an operator with no impl for its operand
\* types: the expression is rejected, there is no value
NoImpl == [panic |-> FALSE, error |-> "E0277"]

vecc_add(f, T, self, rhs) ==
    CASE f = "owned_owned" -> add_owned_owned(T, self, rhs)
      [] f = "owned_borrowed" -> add_owned_borrowed(T, self, rhs)
      [] f = "borrowed_owned" -> add_borrowed_owned(T, self, rhs)
      [] f = "borrowed_borrowed" -> add_borrowed_borrowed(T, self, rhs)

vecc_sub(f, T, self, rhs) ==
    CASE f = "owned_owned" -> sub_owned_owned(T, self, rhs)
      [] f = "owned_borrowed" -> sub_owned_borrowed(T, self, rhs)
      [] f = "borrowed_owned" -> sub_borrowed_owned(T, self, rhs)
      [] f = "borrowed_borrowed" -> sub_borrowed_borrowed(T, self, rhs)

vecc_mul(f, T, self, rhs) ==
    CASE f = "owned_owned" -> mul_owned_owned(T, self, rhs)
      [] f = "owned_borrowed" -> mul_owned_borrowed(T, self, rhs)
      [] f = "borrowed_owned" -> mul_borrowed_owned(T, self, rhs)
      [] f = "borrowed_borrowed" -> mul_borrowed_borrowed(T, self, rhs)

vecc_div(f, T, self, rhs) ==
    CASE f = "owned_owned" -> div_owned_owned(T, self, rhs)
      [] f = "owned_borrowed" -> div_owned_borrowed(T, self, rhs)
      [] f = "borrowed_owned" -> div_borrowed_owned(T, self, rhs)
      [] f = "borrowed_borrowed" -> div_borrowed_borrowed(T, self, rhs)

\* a * b and a / b with a vector b: the impl is looked up by the type of b
vecc_mul_vecc(f, T, self, rhs) ==
    IF VectorRhs(f) \in Mul_Rhs THEN vecc_mul(f, T, self, rhs) ELSE NoImpl

vecc_div_vecc(f, T, self, rhs) ==
    IF VectorRhs(f) \in Div_Rhs THEN vecc_div(f, T, self, rhs) ELSE NoImpl

vecc_rem(f, T, self, rhs) ==
    CASE f = "owned_owned" -> rem_owned_owned(T, self, rhs)
      [] f = "owned_borrowed" -> rem_owned_borrowed(T, self, rhs)
      [] f = "borrowed_owned" -> rem_borrowed_owned(T, self, rhs)
      [] f = "borrowed_borrowed" -> rem_borrowed_borrowed(T, self, rhs)

vecc_rem_t(f, T, self, rhs) ==
    CASE f = "owned_owned" -> rem_t_owned_owned(T, self, rhs)
      [] f = "owned_borrowed" -> rem_t_owned_borrowed(T, self, rhs)
      [] f = "borrowed_owned" -> rem_t_borrowed_owned(T, self, rhs)
      [] f = "borrowed_borrowed" -> rem_t_borrowed_borrowed(T, self, rhs)

vecc_neg(f, T, self) ==
    CASE f = "owned" -> neg_owned(T, self)
      [] f = "borrowed" -> neg_borrowed(T, self)

vecc_rem_assign(f, T, self, rhs) ==
    CASE f = "owned" -> rem_assign_owned(T, self, rhs)
      [] f = "borrowed" -> rem_assign_borrowed(T, self, rhs)

vecc_rem_assign_t(f, T, self, rhs) ==
    CASE f = "owned" -> rem_assign_t_owned(T, self, rhs)
      [] f = "borrowed" -> rem_assign_t_borrowed(T, self, rhs)

(***************************************************************************)
(* Vecc<T>: methods (vecc.rs).                                             *)
(***************************************************************************)
Vecc_new(x, y) == [x |-> x, y |-> y]

\* dot and cross of Fecc operands (T = f64)
dot(self, rhs) == FAdd(FMul(self.x, rhs.x), FMul(self.y, rhs.y))

cross(self, rhs) == FSub(FMul(self.x, rhs.y), FMul(self.y, rhs.x))

\* a cross product that adds its two products
vecc_cross_adding(T, self, rhs) ==
    T_add(T, T_mul(T, self.x, rhs.y).val, T_mul(T, self.y, rhs.x).val)

\* Vecc<T>::dot and Vecc<T>::cross for a component type T
vecc_dot(T, self, rhs) ==
    T_add(T, T_mul(T, self.x, rhs.x).val, T_mul(T, self.y, rhs.y).val)

vecc_cross(T, self, rhs) ==
    T_sub(T, T_mul(T, self.x, rhs.y).val, T_mul(T, self.y, rhs.x).val)

\* a conversion that takes the components in the other order
from_tuple_swapped(t) == Ok([x |-> t[2], y |-> t[1]])

\* impl<T> From<(T, T)> for Vecc<T>
from_tuple(t) == Ok([x |-> t[1], y |-> t[2]])

\* impl<T> Into<(T, T)> for Vecc<T>
into_tuple(self) == Ok(<<self.x, self.y>>)

\* a Different that holds of every pair of types
Different_always(T, U) == TRUE

\* auto trait Different; impl<T> !Different for (T, T)
Different(T, U) == T # U

\* T: From<U>, for the component types i32, i64 and f64: core's From<T> for T
\* and the lossless conversions from i32
T_From(T, U) == T = U \/ <<T, U>> \in {<<"i64", "i32">>, <<"f64", "i32">>}

\* T::from(x) for x: U
T_from(T, U, x) == IF T = "f64" /\ U # "f64" THEN F(x) ELSE x

\* impl<T, U> From<Vecc<U>> for Vecc<T>
vecc_from_vecc(T, U, other) ==
    Ok([x |-> T_from(T, U, other.x), y |-> T_from(T, U, other.y)])

\* core's impl<T> From<T> for T, at Vecc<T>
core_from_identity(other) == Ok(other)

\* the impls of From<Vecc<U>> for Vecc<T> that apply
From_impls(T, U) ==
    (IF T = U THEN {"identity"} ELSE {})
        \cup (IF T_From(T, U) /\ Different(T, U) THEN {"component"} ELSE {})

\* impl<T: Ord + Notf64> Vecc<T>
vecc_min(self, rhs) == Ok([x |-> Ord_min(self.x, rhs.x), y |-> Ord_min(self.y, rhs.y)])

vecc_max(self, rhs) == Ok([x |-> Ord_max(self.x, rhs.x), y |-> Ord_max(self.y, rhs.y)])

\* a clamp that bounds both components by the x components of the bounds
vecc_clamp_x_bounds(self, lo, hi) ==
    MkVecc(Ord_clamp(self.x, lo.x, hi.x), Ord_clamp(self.y, lo.x, hi.x))

vecc_clamp(self, lo, hi) ==
    MkVecc(Ord_clamp(self.x, lo.x, hi.x), Ord_clamp(self.y, lo.y, hi.y))

(***************************************************************************)
(* Fecc = Vecc<f64>: methods (fecc.rs).  Inside the methods `self` is a    *)
(* &Fecc and `*self` an owned Fecc, which selects the impl of each         *)
(* operator.                                                               *)
(***************************************************************************)
f64_powf2(p) == FMul(p, p)

zero == [x |-> F(0), y |-> F(0)]

is_zero(self) == FEq(self.x, F(0)) /\ FEq(self.y, F(0))

mag_squared(self) == FAdd(f64_powf2(self.x), f64_powf2(self.y))

mag(self) == FSqrt(mag_squared(self))

dist(self, other) == mag(sub_owned_owned("f64", self, other).val)

\* a normalize without the zero branch
normalize_unguarded(self) == div_borrowed_owned("f64", self, mag(self))

normalize(self) ==
    IF is_zero(self) THEN Ok(zero)
    ELSE div_borrowed_owned("f64", self, mag(self))

\* a limit that scales whenever the magnitude differs from the limit
limit_always(self, lim) ==
    LET m == mag(self)
    IN  IF ~FEq(m, lim) THEN mul_owned_owned("f64", self, FDiv(lim, m))
        ELSE Ok(self)

\* a limit that scales the vectors shorter than the limit
limit_growing(self, lim) ==
    LET m == mag(self)
    IN  IF FLt(m, lim) THEN mul_owned_owned("f64", self, FDiv(lim, m))
        ELSE Ok(self)

limit(self, lim) ==
    LET m == mag(self)
    IN  IF FGt(m, lim) THEN mul_owned_owned("f64", self, FDiv(lim, m))
        ELSE Ok(self)

\* a resize that divides by the squared magnitude
resize_squared(self, new_mag) ==
    div_owned_owned("f64", mul_owned_owned("f64", self, new_mag).val, mag_squared(self))

resize(self, new_mag) ==
    div_owned_owned("f64", mul_owned_owned("f64", self, new_mag).val, mag(self))

\* a projection that leaves out the division by other.dot(other)
project_undivided(self, other) ==
    IF is_zero(other) THEN Ok(self)
    ELSE mul_owned_owned("f64", other, dot(self, other))

\* a projection that divides by other.dot(other) whatever other is
project_unguarded(self, other) ==
    div_owned_owned("f64",
        mul_owned_owned("f64", other, dot(self, other)).val,
        dot(other, other))

project(self, other) ==
    IF is_zero(other) THEN Ok(self)
    ELSE div_owned_owned("f64",
             mul_owned_owned("f64", other, dot(self, other)).val,
             dot(other, other))

reflect(self, normal) ==
    IF is_zero(normal) THEN Ok(self)
    ELSE neg_owned("f64",
             add_borrowed_owned("f64", self,
                 mul_owned_owned("f64", project(self, normal).val, F(2)).val).val)

\* `as i64` truncates toward zero and casts NaN to 0 (an infinite value would
\* saturate; the caller's vectors are finite)
f64_as_i64(p) == IF IsNaN(p) THEN 0 ELSE FTrunc(p)

round(self) == Ok([x |-> f64_as_i64(f64_round(self.x)), y |-> f64_as_i64(f64_round(self.y))])

floor(self) == Ok([x |-> f64_as_i64(f64_floor(self.x)), y |-> f64_as_i64(f64_floor(self.y))])

ceil(self) == Ok([x |-> f64_as_i64(f64_ceil(self.x)), y |-> f64_as_i64(f64_ceil(self.y))])

fecc_min(self, other) ==
    Ok([x |-> f64_min(self.x, other.x), y |-> f64_min(self.y, other.y)])

fecc_max(self, other) ==
    Ok([x |-> f64_max(self.x, other.x), y |-> f64_max(self.y, other.y)])

\* a clamp that does not check its bounds
fecc_clamp_unchecked(self, lo, hi) ==
    Ok([x |-> f64_max(lo.x, f64_min(self.x, hi.x)),
        y |-> f64_max(lo.y, f64_min(self.y, hi.y))])

fecc_clamp(self, lo, hi) ==
    MkVecc(f64_clamp(self.x, lo.x, hi.x), f64_clamp(self.y, lo.y, hi.y))

(***************************************************************************)
(* Fecc: Euclidean modulo, one definition per impl (fecc.rs).              *)
(***************************************************************************)
\* a Fecc remainder that uses f64 `%`
fecc_rem_truncating(self, rhs) ==
    Ok([x |-> FRem(self.x, rhs.x), y |-> FRem(self.y, rhs.y)])

fecc_rem_owned_owned(self, rhs) ==
    Ok([x |-> rem_euclid(self.x, rhs.x), y |-> rem_euclid(self.y, rhs.y)])

fecc_rem_owned_borrowed(self, rhs) ==
    Ok([x |-> rem_euclid(self.x, rhs.x), y |-> rem_euclid(self.y, rhs.y)])

fecc_rem_borrowed_owned(self, rhs) ==
    Ok([x |-> rem_euclid(self.x, rhs.x), y |-> rem_euclid(self.y, rhs.y)])

fecc_rem_borrowed_borrowed(self, rhs) ==
    Ok([x |-> rem_euclid(self.x, rhs.x), y |-> rem_euclid(self.y, rhs.y)])

fecc_rem_f64_owned_owned(self, rhs) ==
    Ok([x |-> rem_euclid(self.x, rhs), y |-> rem_euclid(self.y, rhs)])

fecc_rem_f64_owned_borrowed(self, rhs) ==
    Ok([x |-> rem_euclid(self.x, rhs), y |-> rem_euclid(self.y, rhs)])

fecc_rem_f64_borrowed_owned(self, rhs) ==
    Ok([x |-> rem_euclid(self.x, rhs), y |-> rem_euclid(self.y, rhs)])

fecc_rem_f64_borrowed_borrowed(self, rhs) ==
    Ok([x |-> rem_euclid(self.x, rhs), y |-> rem_euclid(self.y, rhs)])

\* RemAssign<Fecc> and RemAssign<f64> for Fecc: the value self holds after
\* the call
fecc_rem_assign_owned(self, rhs) ==
    Ok([x |-> rem_euclid(self.x, rhs.x), y |-> rem_euclid(self.y, rhs.y)])

fecc_rem_assign_borrowed(self, rhs) ==
    Ok([x |-> rem_euclid(self.x, rhs.x), y |-> rem_euclid(self.y, rhs.y)])

fecc_rem_assign_f64_owned(self, rhs) ==
    Ok([x |-> rem_euclid(self.x, rhs), y |-> rem_euclid(self.y, rhs)])

fecc_rem_assign_f64_borrowed(self, rhs) ==
    Ok([x |-> rem_euclid(self.x, rhs), y |-> rem_euclid(self.y, rhs)])

fecc_rem(f, self, rhs) ==
    CASE f = "owned_owned" -> fecc_rem_owned_owned(self, rhs)
      [] f = "owned_borrowed" -> fecc_rem_owned_borrowed(self, rhs)
      [] f = "borrowed_owned" -> fecc_rem_borrowed_owned(self, rhs)
      [] f = "borrowed_borrowed" -> fecc_rem_borrowed_borrowed(self, rhs)

fecc_rem_f64(f, self, rhs) ==
    CASE f = "owned_owned" -> fecc_rem_f64_owned_owned(self, rhs)
      [] f = "owned_borrowed" -> fecc_rem_f64_owned_borrowed(self, rhs)
      [] f = "borrowed_owned" -> fecc_rem_f64_borrowed_owned(self, rhs)
      [] f = "borrowed_borrowed" -> fecc_rem_f64_borrowed_borrowed(self, rhs)

(***************************************************************************)
(* Angle and Angular (angle.rs).  A quantity is a bare number of type i32  *)
(* or f64, or an Angle; `v` is the number it holds (Angle's field 0).      *)
(***************************************************************************)
\* std::f64::consts::PI, as a short rational
PI == Frac(22, 7)

Angle(p) == [ty |-> "Angle", v |-> p]

\* the types T with f64: From<T>
f64_From(T) == T \in {"i32", "f64"}

\* f64::from(x) for x: T
f64_from(T, x) == IF T = "i32" THEN F(x) ELSE x

\* impl<T> Angular for T where f64: From<T>, T: Copy
Angular_impl(T) == f64_From(T) /\ T \in {"i32", "f64", "Angle"}

\* impl Deref for Angle: *angle is the f64 it holds
deref(q) == [ty |-> "f64", v |-> q.v]

\* the receiver that a call q.rad() or q.deg() resolves to: q itself where
\* Angular is implemented for its type, else the target of its Deref
Angular_receiver(q) ==
    IF Angular_impl(q.ty) THEN {q}
    ELSE IF q.ty = "Angle" /\ Angular_impl(deref(q).ty) THEN {deref(q)}
    ELSE {}

Angular_rad(q) == Angle(f64_from(q.ty, q.v))

\* a deg that keeps the number as it is
Angular_deg_unscaled(q) == Angle(f64_from(q.ty, q.v))

Angular_deg(q) == Angle(FDiv(FMul(f64_from(q.ty, q.v), PI), F(180)))

\* a conversion that reads a bare number as degrees
Angle_from_degrees(q) ==
    IF q.ty = "Angle" THEN q ELSE Angle(FDiv(FMul(f64_from(q.ty, q.v), PI), F(180)))

\* -angle: impl Neg for Angle, and the negation of a bare number
angle_neg(q) ==
    IF q.ty = "Angle" THEN Angle(FNeg(q.v))
    ELSE IF q.ty = "f64" THEN [ty |-> "f64", v |-> FNeg(q.v)]
    ELSE [ty |-> q.ty, v |-> -q.v]

\* A: Into<Angle>: From<T> for Angle where f64: From<T>, and core's From<T>
\* for T when the argument is an Angle already
Angle_from(q) == IF q.ty = "Angle" THEN q ELSE Angle(f64_from(q.ty, q.v))

QuarterTurns(p) == {k \in (-MaxTurns)..MaxTurns : p = FMul(F(k), FDiv(PI, F(2)))}

InTrigDomain(p) == QuarterTurns(p) # {}

f64_cos(p) ==
    LET k == CHOOSE k \in QuarterTurns(p) : TRUE
    IN  F(CASE k % 4 = 0 -> 1 [] k % 4 = 2 -> -1 [] OTHER -> 0)

f64_sin(p) ==
    LET k == CHOOSE k \in QuarterTurns(p) : TRUE
    IN  F(CASE k % 4 = 1 -> 1 [] k % 4 = 3 -> -1 [] OTHER -> 0)

from_angle(angle) ==
    LET a == Angle_from(angle)
    IN  Ok([x |-> f64_cos(a.v), y |-> f64_sin(a.v)])

\* a turn that adds the angle to the direction of self
turn_rotating(self, angle) ==
    LET a == Angle_from(angle)
    IN  Ok([x |-> FSub(FMul(self.x, f64_cos(a.v)), FMul(self.y, f64_sin(a.v))),
            y |-> FAdd(FMul(self.x, f64_sin(a.v)), FMul(self.y, f64_cos(a.v)))])

turn(self, angle) ==
    mul_owned_owned("f64", from_angle(Angle_from(angle)).val, mag(self))

\* a rotation with the sign of sin wrong in y
rotate_skewed(self, angle) ==
    LET a == Angle_from(angle)
    IN  Ok([x |-> FSub(FMul(self.x, f64_cos(a.v)), FMul(self.y, f64_sin(a.v))),
            y |-> FAdd(FNeg(FMul(self.x, f64_sin(a.v))), FMul(self.y, f64_cos(a.v)))])

\* a rotation that leaves out the sin terms
rotate_cos_only(self, angle) ==
    LET a == Angle_from(angle)
    IN  Ok([x |-> FMul(self.x, f64_cos(a.v)), y |-> FMul(self.y, f64_cos(a.v))])

rotate(self, angle) ==
    LET a == Angle_from(angle)
    IN  Ok([x |-> FSub(FMul(self.x, f64_cos(a.v)), FMul(self.y, f64_sin(a.v))),
            y |-> FAdd(FMul(self.x, f64_sin(a.v)), FMul(self.y, f64_cos(a.v)))])

\* the vectors on an axis or on a diagonal: their angle is a multiple of
\* PI / 4
HasExactAngle(self) ==
    self.x = F(0) \/ self.y = F(0) \/ FAbs(self.x) = FAbs(self.y)

\* y.atan2(x) at those vectors, in eighths of a turn: a value in (-PI, PI],
\* and 0 at (0, 0)
f64_atan2(y, x) ==
    LET sx == Sign(x.n)
        sy == Sign(y.n)
        k == CASE sy = 0 /\ sx >= 0 -> 0
               [] sy = 0 /\ sx < 0 -> 4
               [] sx = 0 -> 2 * sy
               [] sx > 0 -> sy
               [] OTHER -> 3 * sy
    IN  FDiv(FMul(F(k), PI), F(4))

angle(self) == f64_atan2(self.y, self.x)

\* the difference of the two angles as it is
angle_to_unwrapped(self, other) == FSub(angle(other), angle(self))

angle_to(self, other) ==
    LET a == FSub(angle(other), angle(self))
    IN  IF FGt(a, PI) THEN FSub(a, FMul(F(2), PI))
        ELSE IF FLt(a, FNeg(PI)) THEN FAdd(a, FMul(F(2), PI))
        ELSE a

(***************************************************************************)
(* The caller: its operands.                                               *)
(***************************************************************************)
Coords == (-MaxCoord)..MaxCoord

ScalarInts == ((-MaxScalar)..MaxScalar) \cup {5, 10}

BoundCoords == (-MaxBound)..MaxBound

RhsCoords == {-MaxRhs, 0, MaxRhs, 10}

Component(T, i) == IF T = "i32" THEN i ELSE F(i)

\* components of f64 vectors that are no integers: halves, where round has a
\* tie, and values off the halves
FracCoords ==
    {Frac(-3, 2), Frac(-1, 2), Frac(1, 2), Frac(-7, 4), Frac(31, 10), Frac(23, 5)}

\* Vecc::new(x, y) for every pair of coordinates, and for T = f64 every pair
\* of the components that are no integers
VeccInputs(T) ==
    {Vecc_new(Component(T, i), Component(T, j)) : i, j \in Coords}
        \cup (IF T = "f64" THEN {Vecc_new(p, q) : p, q \in FracCoords} ELSE {})

\* the vectors handed to a call as its second operand
RhsInputs(T) == {Vecc_new(Component(T, i), Component(T, j)) : i, j \in RhsCoords}

BoundInputs(T) == {Vecc_new(Component(T, i), Component(T, j)) : i, j \in BoundCoords}

Scalars(T) ==
    {Component(T, i) : i \in ScalarInts} \cup (IF T = "f64" THEN {Frac(5, 2)} ELSE {})

\* the normals handed to reflect: the right-hand sides and the unit vector up
Normals == RhsInputs("f64") \cup {Vecc_new(F(0), F(1))}

\* the vectors whose magnitude is a rational number
HasExactMag(self) ==
    LET m2 == mag_squared(self) IN IsSquare(m2.n) /\ IsSquare(m2.d)

NoArg == <<>>

InitCaller ==
    /\ vec \in VeccInputs(elem)
    /\ op = "new"
    /\ form = "none"
    /\ before = vec
    /\ arg = NoArg
    /\ arg2 = NoArg
    /\ out = Ok(vec)

NoAngle ==
    /\ bare = NoArg
    /\ qty = NoArg
    /\ conv = <<>>

\* no example simulation is running
NoEngine ==
    /\ vehicle = NoArg
    /\ pixels = {}
    /\ frames = 0

Init ==
    /\ elem \in {"i32", "f64"}
    /\ InitCaller
    /\ NoAngle
    /\ NoEngine

(***************************************************************************)
(* The caller: one call.  A call is made on a vector with no result        *)
(* pending; it leaves the receiver alone and returns its result in `out`.  *)
(* An op-assign call writes the receiver instead.                          *)
(***************************************************************************)
Ready == op = "new"

\* a call where normalize stores the vector it returns in the receiver
Call_storing(name, f, a1, a2, result) ==
    /\ op' = name
    /\ form' = f
    /\ before' = vec
    /\ arg' = a1
    /\ arg2' = a2
    /\ out' = result
    /\ vec' = IF name = "normalize" THEN result.val ELSE vec
    /\ UNCHANGED <<elem, bare, qty, conv, vehicle, pixels, frames>>

\* a call of a method or an operator that takes its receiver by value (Vecc
\* is Copy) or by shared reference: the caller's vector stays as it is
Call(name, f, a1, a2, result) ==
    /\ op' = name
    /\ form' = f
    /\ before' = vec
    /\ arg' = a1
    /\ arg2' = a2
    /\ out' = result
    /\ UNCHANGED <<elem, vec, bare, qty, conv, vehicle, pixels, frames>>

CallAssign(name, f, a1, result) ==
    /\ op' = name
    /\ form' = f
    /\ before' = vec
    /\ arg' = a1
    /\ arg2' = NoArg
    /\ out' = IF result.panic THEN Panic ELSE Ok(NoArg)
    /\ vec' = IF result.panic THEN vec ELSE result.val
    /\ UNCHANGED <<elem, bare, qty, conv, vehicle, pixels, frames>>

\* the caller drops the result and goes on with the vector it holds, as long
\* as that vector is one of VeccInputs; a call that panicked has ended the
\* caller
Drop ==
    /\ op # "new"
    /\ ~out.panic
    /\ vec \in VeccInputs(elem)
    /\ op' = "new"
    /\ form' = "none"
    /\ before' = vec
    /\ arg' = NoArg
    /\ arg2' = NoArg
    /\ out' = Ok(vec)
    /\ UNCHANGED <<elem, vec, bare, qty, conv, vehicle, pixels, frames>>

(***************************************************************************)
(* Calls of the generic operators and methods of Vecc<T>.                  *)
(***************************************************************************)
Neg ==
    /\ Ready
    /\ \E f \in AssignForms :
          Call("neg", f, NoArg, NoArg, vecc_neg(f, elem, vec))

Add ==
    /\ Ready
    /\ \E f \in Forms, rhs \in RhsInputs(elem) :
          Call("add", f, rhs, NoArg, vecc_add(f, elem, vec, rhs))

Sub ==
    /\ Ready
    /\ \E f \in Forms, rhs \in RhsInputs(elem) :
          Call("sub", f, rhs, NoArg, vecc_sub(f, elem, vec, rhs))

Mul ==
    /\ Ready
    /\ \E f \in Forms, rhs \in Scalars(elem) :
          Call("mul", f, rhs, NoArg, vecc_mul(f, elem, vec, rhs))

Div ==
    /\ Ready
    /\ \E f \in Forms, rhs \in Scalars(elem) :
          Call("div", f, rhs, NoArg, vecc_div(f, elem, vec, rhs))

MulVecc ==
    /\ Ready
    /\ \E f \in Forms, rhs \in RhsInputs(elem) :
          Call("mul_vecc", f, rhs, NoArg, vecc_mul_vecc(f, elem, vec, rhs))

DivVecc ==
    /\ Ready
    /\ \E f \in Forms, rhs \in RhsInputs(elem) :
          Call("div_vecc", f, rhs, NoArg, vecc_div_vecc(f, elem, vec, rhs))

Rem ==
    /\ Ready
    /\ Notf64(elem)
    /\ \E f \in Forms, rhs \in RhsInputs(elem) :
          Call("rem", f, rhs, NoArg, vecc_rem(f, elem, vec, rhs))

RemT ==
    /\ Ready
    /\ Notf64(elem)
    /\ \E f \in Forms, rhs \in Scalars(elem) :
          Call("rem_t", f, rhs, NoArg, vecc_rem_t(f, elem, vec, rhs))

RemAssign ==
    /\ Ready
    /\ Notf64(elem)
    /\ \E f \in AssignForms, rhs \in RhsInputs(elem) :
          CallAssign("rem_assign", f, rhs, vecc_rem_assign(f, elem, vec, rhs))

RemAssignT ==
    /\ Ready
    /\ Notf64(elem)
    /\ \E f \in AssignForms, rhs \in Scalars(elem) :
          CallAssign("rem_assign_t", f, rhs, vecc_rem_assign_t(f, elem, vec, rhs))

AddAssign ==
    /\ Ready
    /\ \E rhs \in RhsInputs(elem) :
          \/ CallAssign("add_assign", "owned", rhs, add_assign_owned(elem, vec, rhs))
          \/ CallAssign("add_assign", "borrowed", rhs, add_assign_borrowed(elem, vec, rhs))

SubAssign ==
    /\ Ready
    /\ \E rhs \in RhsInputs(elem) :
          \/ CallAssign("sub_assign", "owned", rhs, sub_assign_owned(elem, vec, rhs))
          \/ CallAssign("sub_assign", "borrowed", rhs, sub_assign_borrowed(elem, vec, rhs))

MulAssign ==
    /\ Ready
    /\ \E rhs \in Scalars(elem) :
          \/ CallAssign("mul_assign", "owned", rhs, mul_assign_owned(elem, vec, rhs))
          \/ CallAssign("mul_assign", "borrowed", rhs, mul_assign_borrowed(elem, vec, rhs))

DivAssign ==
    /\ Ready
    /\ \E rhs \in Scalars(elem) :
          \/ CallAssign("div_assign", "owned", rhs, div_assign_owned(elem, vec, rhs))
          \/ CallAssign("div_assign", "borrowed", rhs, div_assign_borrowed(elem, vec, rhs))

Min ==
    /\ Ready
    /\ Notf64(elem)
    /\ \E rhs \in RhsInputs(elem) :
          Call("min", "owned", rhs, NoArg, vecc_min(vec, rhs))

Max ==
    /\ Ready
    /\ Notf64(elem)
    /\ \E rhs \in RhsInputs(elem) :
          Call("max", "owned", rhs, NoArg, vecc_max(vec, rhs))

Clamp ==
    /\ Ready
    /\ Notf64(elem)
    /\ \E lo, hi \in BoundInputs(elem) :
          Call("clamp", "owned", lo, hi, vecc_clamp(vec, lo, hi))

\* the tuples handed to Vecc::from
TupleInputs == {<<Component(elem, i), Component(elem, j)>> : i, j \in RhsCoords}

FromTuple ==
    /\ Ready
    /\ \E t \in TupleInputs :
          Call("from_tuple", "owned", t, NoArg, from_tuple(t))

IntoTuple ==
    /\ Ready
    /\ Call("into_tuple", "owned", NoArg, NoArg, into_tuple(vec))

\* the vector built from a tuple converted back, and the tuple of a vector
\* converted back
IntoTupleBack ==
    /\ op = "from_tuple"
    /\ op' = "from_tuple_into"
    /\ out' = into_tuple(out.val)
    /\ UNCHANGED <<elem, vec, form, before, arg, arg2, bare, qty, conv,
                 vehicle, pixels, frames>>

FromTupleBack ==
    /\ op = "into_tuple"
    /\ op' = "into_tuple_from"
    /\ out' = from_tuple(out.val)
    /\ UNCHANGED <<elem, vec, form, before, arg, arg2, bare, qty, conv,
                 vehicle, pixels, frames>>

\* Vecc::<T>::from(vec) for a target component type T, through whichever
\* impl applies
VeccFrom ==
    /\ Ready
    /\ \E T \in {"i32", "i64", "f64"} :
          \E i \in From_impls(T, elem) :
              Call("vecc_from", i, T, NoArg,
                   IF i = "identity" THEN core_from_identity(vec)
                   ELSE vecc_from_vecc(T, elem, vec))

(***************************************************************************)
(* Calls of the operators and methods of Fecc.                             *)
(***************************************************************************)
FeccRem ==
    /\ Ready
    /\ elem = "f64"
    /\ \E f \in Forms, rhs \in RhsInputs(elem) :
          Call("fecc_rem", f, rhs, NoArg, fecc_rem(f, vec, rhs))

FeccRemF64 ==
    /\ Ready
    /\ elem = "f64"
    /\ \E f \in Forms, rhs \in Scalars(elem) :
          Call("fecc_rem_f64", f, rhs, NoArg, fecc_rem_f64(f, vec, rhs))

FeccRemAssign ==
    /\ Ready
    /\ elem = "f64"
    /\ \E rhs \in RhsInputs(elem) :
          \/ CallAssign("fecc_rem_assign", "owned", rhs, fecc_rem_assign_owned(vec, rhs))
          \/ CallAssign("fecc_rem_assign", "borrowed", rhs, fecc_rem_assign_borrowed(vec, rhs))

FeccRemAssignF64 ==
    /\ Ready
    /\ elem = "f64"
    /\ \E rhs \in Scalars(elem) :
          \/ CallAssign("fecc_rem_assign_f64", "owned", rhs,
                        fecc_rem_assign_f64_owned(vec, rhs))
          \/ CallAssign("fecc_rem_assign_f64", "borrowed", rhs,
                        fecc_rem_assign_f64_borrowed(vec, rhs))

\* normalize, limit and resize take a square root: they are called on the
\* vectors whose magnitude is rational
Normalize ==
    /\ Ready
    /\ elem = "f64"
    /\ HasExactMag(vec)
    /\ Call("normalize", "borrowed", NoArg, NoArg, normalize(vec))

Limit ==
    /\ Ready
    /\ elem = "f64"
    /\ HasExactMag(vec)
    /\ \E lim \in Scalars(elem) :
          Call("limit", "borrowed", lim, NoArg, limit(vec, lim))

Resize ==
    /\ Ready
    /\ elem = "f64"
    /\ HasExactMag(vec)
    /\ \E new_mag \in Scalars(elem) :
          Call("resize", "borrowed", new_mag, NoArg, resize(vec, new_mag))

Reflect ==
    /\ Ready
    /\ elem = "f64"
    /\ \E normal \in Normals :
          Call("reflect", "borrowed", normal, NoArg, reflect(vec, normal))

\* angle_to takes atan2 of both vectors: it is called on the vectors whose
\* angle is a multiple of PI / 4
AngleTo ==
    /\ Ready
    /\ elem = "f64"
    /\ HasExactAngle(vec)
    /\ \E other \in RhsInputs(elem) :
          /\ HasExactAngle(other)
          /\ Call("angle_to", "borrowed", other, NoArg, Ok(angle_to(vec, other)))

Project ==
    /\ Ready
    /\ elem = "f64"
    /\ \E other \in RhsInputs(elem) :
          Call("project", "borrowed", other, NoArg, project(vec, other))

\* v.project(w).project(w): the projection projected again
ProjectAgain ==
    /\ op = "project"
    /\ ~out.panic
    /\ op' = "project_again"
    /\ out' = project(out.val, arg)
    /\ UNCHANGED <<elem, vec, form, before, arg, arg2, bare, qty, conv,
                 vehicle, pixels, frames>>

\* dist takes the magnitude of a difference: it is called where that
\* magnitude is rational
Dist ==
    /\ Ready
    /\ elem = "f64"
    /\ \E other \in RhsInputs(elem) :
          /\ HasExactMag(sub_owned_owned("f64", vec, other).val)
          /\ Call("dist", "borrowed", other, NoArg, Ok(dist(vec, other)))

\* dot and cross take another vector or the receiver itself
Dot ==
    /\ Ready
    /\ \E rhs \in RhsInputs(elem) \cup {vec} :
          Call("dot", "owned", rhs, NoArg, vecc_dot(elem, vec, rhs))

Cross ==
    /\ Ready
    /\ \E rhs \in RhsInputs(elem) \cup {vec} :
          Call("cross", "owned", rhs, NoArg, vecc_cross(elem, vec, rhs))

Round ==
    /\ Ready
    /\ elem = "f64"
    /\ Call("round", "borrowed", NoArg, NoArg, round(vec))

Floor ==
    /\ Ready
    /\ elem = "f64"
    /\ Call("floor", "borrowed", NoArg, NoArg, floor(vec))

Ceil ==
    /\ Ready
    /\ elem = "f64"
    /\ Call("ceil", "borrowed", NoArg, NoArg, ceil(vec))

FeccMin ==
    /\ Ready
    /\ elem = "f64"
    /\ \E other \in RhsInputs(elem) :
          Call("fecc_min", "borrowed", other, NoArg, fecc_min(vec, other))

FeccMax ==
    /\ Ready
    /\ elem = "f64"
    /\ \E other \in RhsInputs(elem) :
          Call("fecc_max", "borrowed", other, NoArg, fecc_max(vec, other))

FeccClamp ==
    /\ Ready
    /\ elem = "f64"
    /\ \E lo, hi \in BoundInputs(elem) :
          Call("fecc_clamp", "borrowed", lo, hi, fecc_clamp(vec, lo, hi))

Next ==
    \/ Neg \/ Add \/ Sub \/ Mul \/ Div
    \/ MulVecc \/ DivVecc
    \/ Rem \/ RemT \/ RemAssign \/ RemAssignT
    \/ AddAssign \/ SubAssign \/ MulAssign \/ DivAssign
    \/ Min \/ Max \/ Clamp
    \/ FromTuple \/ IntoTuple \/ IntoTupleBack \/ FromTupleBack \/ VeccFrom
    \/ FeccRem \/ FeccRemF64 \/ FeccRemAssign \/ FeccRemAssignF64
    \/ Normalize \/ Limit \/ Resize \/ Reflect \/ Project \/ AngleTo
    \/ Round \/ Floor \/ Ceil
    \/ Dot \/ Cross \/ Dist \/ ProjectAgain
    \/ FeccMin \/ FeccMax \/ FeccClamp
    \/ Drop

Spec == Init /\ [][Next]_vars

(***************************************************************************)
(* The caller of the angle API: it holds a bare number, converts it with   *)
(* Angular::rad and Angular::deg wherever such a call resolves, and hands  *)
(* the quantity to the Fecc methods that take an A: Into<Angle>.           *)
(***************************************************************************)
Turns == (-MaxTurns)..MaxTurns

BareInputs ==
    {[ty |-> "i32", v |-> 90 * k] : k \in Turns}
        \cup {[ty |-> "i32", v |-> 1]}
        \cup {[ty |-> "f64", v |-> FMul(F(k), FDiv(PI, F(2)))] : k \in Turns}
        \cup {[ty |-> "f64", v |-> F(180)], [ty |-> "f64", v |-> Frac(1, 2)]}

InitAngle ==
    /\ elem = "f64"
    /\ InitCaller
    /\ HasExactMag(vec)
    /\ bare \in BareInputs
    /\ qty = bare
    /\ conv = <<>>
    /\ NoEngine

Rad ==
    /\ Ready
    /\ Len(conv) < MaxConv
    /\ \E r \in Angular_receiver(qty) :
          qty' = Angular_rad(r)
    /\ conv' = Append(conv, "rad")
    /\ UNCHANGED <<elem, vec, op, form, before, arg, arg2, out, bare,
                 vehicle, pixels, frames>>

Deg ==
    /\ Ready
    /\ Len(conv) < MaxConv
    /\ \E r \in Angular_receiver(qty) :
          qty' = Angular_deg(r)
    /\ conv' = Append(conv, "deg")
    /\ UNCHANGED <<elem, vec, op, form, before, arg, arg2, out, bare,
                 vehicle, pixels, frames>>

FromAngle ==
    /\ Ready
    /\ InTrigDomain(Angle_from(qty).v)
    /\ Call("from_angle", "owned", qty, NoArg, from_angle(qty))

Turn ==
    /\ Ready
    /\ InTrigDomain(Angle_from(qty).v)
    /\ Call("turn", "borrowed", qty, NoArg, turn(vec, qty))

Rotate ==
    /\ Ready
    /\ InTrigDomain(Angle_from(qty).v)
    /\ Call("rotate", "borrowed", qty, NoArg, rotate(vec, qty))

\* v.rotate(angle).rotate(-angle): the result of a rotation rotated back
RotateBack ==
    /\ op = "rotate"
    /\ ~out.panic
    /\ op' = "rotate_back"
    /\ out' = rotate(out.val, angle_neg(arg))
    /\ UNCHANGED <<elem, vec, form, before, arg, arg2, bare, qty, conv,
                 vehicle, pixels, frames>>

NextAngle == Rad \/ Deg \/ FromAngle \/ Turn \/ Rotate \/ RotateBack \/ Drop

SpecAngle == InitAngle /\ [][NextAngle]_vars

(***************************************************************************)
(* The example simulations (examples/seek.rs, examples/engine.rs): a       *)
(* Vehicle moved by Vehicle::step and drawn into the frame buffer.  The     *)
(* frame buffer is the set of the byte offsets that hold the bytes of a    *)
(* point; every other byte holds the background.                           *)
(***************************************************************************)
MAX_FORCE == 100

MAX_VELOCITY == 20

MASS == 1

WIDTH == 64

HEIGHT == 64

Vehicle_new(x, y) == [position |-> from_tuple(<<x, y>>).val, velocity |-> zero]

\* `let force = force.limit(MAX_FORCE)`: the force that step applies
Vehicle_step_force(force) == limit(force, F(MAX_FORCE)).val

\* the velocity of step before it is limited
Vehicle_step_raw_velocity(self, force, dt) ==
    LET acceleration == div_owned_owned("f64", Vehicle_step_force(force), F(MASS)).val
    IN  add_owned_owned("f64", self.velocity,
            mul_owned_owned("f64", acceleration, dt).val).val

\* a step that does not limit the velocity
Vehicle_step_unlimited(self, force, dt) ==
    LET velocity == Vehicle_step_raw_velocity(self, force, dt)
    IN  [position |-> add_owned_owned("f64", self.position,
                          mul_owned_owned("f64", velocity, dt).val).val,
         velocity |-> velocity]

Vehicle_step(self, force, dt) ==
    LET velocity == limit(Vehicle_step_raw_velocity(self, force, dt),
                          F(MAX_VELOCITY)).val
    IN  [position |-> add_owned_owned("f64", self.position,
                          mul_owned_owned("f64", velocity, dt).val).val,
         velocity |-> velocity]

\* Option<usize>
Some(v) == <<v>>

None == <<>>

\* the frame of Pixels::new(WIDTH, HEIGHT, ..): four bytes for each pixel
Buffer_len == WIDTH * HEIGHT * 4

\* an ix that checks the row only
Buffer_ix_rows_only(x, y) ==
    IF x >= 0 /\ y \in 0..(HEIGHT - 1) THEN Some((x + y * WIDTH) * 4) ELSE None

Buffer_ix(x, y) ==
    IF x \in 0..(WIDTH - 1) /\ y \in 0..(HEIGHT - 1)
    THEN Some((x + y * WIDTH) * 4)
    ELSE None

\* the slice pixels[ix..(ix + 4)] panics when it ends past the buffer
Buffer_draw_point(buffer, position) ==
    LET t == into_tuple(floor(position).val).val
        ix == Buffer_ix(t[1], t[2])
    IN  IF ix = None THEN Ok(buffer)
        ELSE IF ix[1] + 4 > Buffer_len THEN Panic
        ELSE Ok(buffer \cup (ix[1]..(ix[1] + 3)))

\* every pixel set to the background
Buffer_clear(buffer) == {}

\* where a vehicle starts: on the screen, on its edges and off it
StartCoords == {F(0), F(10), F(50), Frac(127, 2), F(64)}

\* the forces handed to step: none, below, at and above MAX_FORCE
ForceInputs ==
    {zero, Vecc_new(F(3), F(4)), Vecc_new(F(60), F(80)), Vecc_new(F(300), F(400)),
     Vecc_new(F(0), F(-150)), Vecc_new(F(-30), F(0)), Vecc_new(F(-400), F(-300))}

\* the seconds since the last frame
DtInputs == {F(0), Frac(1, 10), Frac(1, 2), F(1)}

InitEngine ==
    /\ elem = "f64"
    /\ vec = zero
    /\ op = "new"
    /\ form = "none"
    /\ before = NoArg
    /\ arg = NoArg
    /\ arg2 = NoArg
    /\ out = Ok({})
    /\ NoAngle
    /\ \E x, y \in StartCoords : vehicle = Vehicle_new(x, y)
    /\ pixels = {}
    /\ frames = 0

\* one RedrawRequested event: update moves the vehicle by one step, the
\* buffer is cleared and draw draws the vehicle.  The magnitudes that step
\* takes are rational.
Redraw ==
    /\ frames < MaxFrames
    /\ ~out.panic
    /\ \E force \in ForceInputs, dt \in DtInputs :
          /\ HasExactMag(force)
          /\ HasExactMag(Vehicle_step_raw_velocity(vehicle, force, dt))
          /\ LET moved == Vehicle_step(vehicle, force, dt)
                 drawn == Buffer_draw_point(Buffer_clear(pixels), moved.position)
             IN  /\ vehicle' = moved
                 /\ pixels' = IF drawn.panic THEN Buffer_clear(pixels) ELSE drawn.val
                 /\ out' = drawn
                 /\ op' = "redraw"
                 /\ before' = vehicle
                 /\ arg' = force
                 /\ arg2' = dt
                 /\ frames' = frames + 1
    /\ UNCHANGED <<elem, vec, form, bare, qty, conv>>

NextEngine == Redraw

SpecEngine == InitEngine /\ [][NextEngine]_vars

(***************************************************************************)
(* Properties of the operators of Vecc<T> and Fecc, checked of Spec.       *)
(***************************************************************************)
Comps == {"x", "y"}

\* b is a positive multiple of a
SameDirection(a, b) ==
    /\ FSub(FMul(a.x, b.y), FMul(a.y, b.x)) = F(0)
    /\ FGt(FAdd(FMul(a.x, b.x), FMul(a.y, b.y)), F(0))

\* b is a negative multiple of a
OppositeDirection(a, b) ==
    /\ FSub(FMul(a.x, b.y), FMul(a.y, b.x)) = F(0)
    /\ FLt(FAdd(FMul(a.x, b.x), FMul(a.y, b.y)), F(0))

\* C1: whichever of the four ownership forms of +, -, * (by a scalar) and
\* / (by a scalar) the caller used, every other form gives the same result
\* on the same operands.
OwnershipFormsAgree ==
    /\ op = "add" => \A f \in Forms : vecc_add(f, elem, before, arg) = out
    /\ op = "sub" => \A f \in Forms : vecc_sub(f, elem, before, arg) = out
    /\ op = "mul" => \A f \in Forms : vecc_mul(f, elem, before, arg) = out
    /\ op = "div" => \A f \in Forms : vecc_div(f, elem, before, arg) = out

\* a subtraction through a borrowed right-hand side that changed the vector
OwnershipFormsWitness ==
    /\ op = "sub"
    /\ form = "owned_borrowed"
    /\ elem = "i32"
    /\ before = [x |-> 3, y |-> -1]
    /\ arg = [x |-> 10, y |-> -2]
    /\ out = Ok([x |-> -7, y |-> 1])

\* the generic %, %=: the call, its modulus per component and its result
RemCalled == op \in {"rem", "rem_t", "rem_assign", "rem_assign_t"} /\ ~out.panic

RemModulus == IF op \in {"rem", "rem_assign"} THEN arg ELSE [x |-> arg, y |-> arg]

RemResult == IF op \in {"rem", "rem_t"} THEN out.val ELSE vec

\* C2 as stated: the generic % and %= on integer components give, for a
\* positive modulus m, a result component in [0, m).
GenericRemIsEuclidean ==
    RemCalled =>
        \A c \in Comps :
            RemModulus[c] > 0 => (0 <= RemResult[c] /\ RemResult[c] < RemModulus[c])

\* C2: the generic % and %= on integer components give the truncating
\* remainder: for a positive modulus m and a dividend component x the result
\* r has |r| < m, x - r is a multiple of m, and r is zero or has the sign of
\* x; (-3, -3) % 10 is (-3, -3).
GenericRemTruncates ==
    RemCalled =>
        /\ \A c \in Comps :
              LET x == before[c]
                  m == RemModulus[c]
                  r == RemResult[c]
              IN  m > 0 =>
                     /\ Abs(r) < m
                     /\ (x - r) % m = 0
                     /\ r = 0 \/ Sign(r) = Sign(x)
                     /\ (0 <= r) <=> (x >= 0 \/ x % m = 0)
        /\ (before = [x |-> -3, y |-> -3] /\ RemModulus = [x |-> 10, y |-> 10])
              => RemResult = [x |-> -3, y |-> -3]

\* (-3, -3) %= 10 leaves (-3, -3) in the vector
GenericRemWitness ==
    /\ op = "rem_assign_t"
    /\ before = [x |-> -3, y |-> -3]
    /\ arg = 10
    /\ ~out.panic
    /\ vec = [x |-> -3, y |-> -3]

FeccRemCalled == op \in {"fecc_rem", "fecc_rem_f64"} /\ ~out.panic

FeccRemModulus == IF op = "fecc_rem" THEN arg ELSE [x |-> arg, y |-> arg]

\* C3: Fecc's %, by a vector or by a scalar and in each ownership form,
\* gives for a negative dividend component x and a positive modulus m a
\* component r with 0 <= r < m and x - r a whole multiple of m; (-3) % 10 is 7.
FeccRemIsEuclidean ==
    FeccRemCalled =>
        \A c \in Comps :
            LET x == before[c]
                m == FeccRemModulus[c]
                r == out.val[c]
            IN  /\ (FLt(x, F(0)) /\ FGt(m, F(0))) =>
                      /\ FLe(F(0), r)
                      /\ FLt(r, m)
                      /\ FDiv(FSub(x, r), m).d = 1
                /\ (x = F(-3) /\ m = F(10)) => r = F(7)

\* (-3, -1) % (10, 2) through two borrows is (7, 1)
FeccRemWitness ==
    /\ op = "fecc_rem"
    /\ form = "borrowed_borrowed"
    /\ before = [x |-> F(-3), y |-> F(-1)]
    /\ arg = [x |-> F(10), y |-> F(2)]
    /\ out = Ok([x |-> F(7), y |-> F(1)])

NormalizeCorrect ==
    op = "normalize" =>
        /\ ~out.panic
        /\ is_zero(before) => out.val = zero
        /\ ~is_zero(before) =>
              /\ mag(before) # F(0)
              /\ out = div_owned_owned("f64", before, mag(before))
              /\ mag(out.val) = F(1)
              /\ SameDirection(before, out.val)

\* (3, 4) normalized to (3/5, 4/5)
NormalizeWitness ==
    /\ op = "normalize"
    /\ before = [x |-> F(3), y |-> F(4)]
    /\ out = Ok([x |-> Frac(3, 5), y |-> Frac(4, 5)])

\* C9 as stated: for every limit L, a vector longer than L is limited to
\* magnitude L in its own direction, and any other vector is returned as
\* it is.
LimitForEveryLimit ==
    op = "limit" =>
        /\ FGt(mag(before), arg) =>
              (mag(out.val) = arg /\ SameDirection(before, out.val))
        /\ FLe(mag(before), arg) => out.val = before

\* C9: for a limit L >= 0, a vector longer than L is scaled by L / mag to
\* magnitude L (in its own direction when L > 0, to the zero vector when
\* L = 0) and any other vector is returned as it is; for L < 0 a non-zero
\* vector is scaled to magnitude -L in the opposite direction.
LimitForNonNegativeLimit ==
    op = "limit" =>
        /\ (FGe(arg, F(0)) /\ FGt(mag(before), arg)) =>
              /\ mag(out.val) = arg
              /\ FGt(arg, F(0)) => SameDirection(before, out.val)
              /\ arg = F(0) => out.val = zero
        /\ (FGe(arg, F(0)) /\ FLe(mag(before), arg)) => out.val = before
        /\ (FLt(arg, F(0)) /\ ~is_zero(before)) =>
              /\ mag(out.val) = FNeg(arg)
              /\ OppositeDirection(before, out.val)

\* (3, 4) limited to 5/2 is (3/2, 2)
LimitWitness ==
    /\ op = "limit"
    /\ before = [x |-> F(3), y |-> F(4)]
    /\ arg = Frac(5, 2)
    /\ out = Ok([x |-> Frac(3, 2), y |-> F(2)])

\* C10 as stated: for every new_mag, a non-zero vector resized to new_mag
\* has magnitude new_mag and its own direction.
ResizeForEveryMag ==
    (op = "resize" /\ ~is_zero(before)) =>
        (mag(out.val) = arg /\ SameDirection(before, out.val))

\* C10: a non-zero vector resized to new_mag > 0 has magnitude new_mag and
\* its own direction; resized to 0 it is the zero vector; resized to
\* new_mag < 0 it has magnitude -new_mag and the opposite direction.
ResizeForPositiveMag ==
    (op = "resize" /\ ~is_zero(before)) =>
        /\ FGt(arg, F(0)) =>
              (mag(out.val) = arg /\ SameDirection(before, out.val))
        /\ arg = F(0) => out.val = zero
        /\ FLt(arg, F(0)) =>
              (mag(out.val) = FNeg(arg) /\ OppositeDirection(before, out.val))

\* (3, 4) resized to 10 is (6, 8)
ResizeWitness ==
    /\ op = "resize"
    /\ before = [x |-> F(3), y |-> F(4)]
    /\ arg = F(10)
    /\ out = Ok([x |-> F(6), y |-> F(8)])

(***************************************************************************)
(* Properties of Angle and Angular, checked of SpecAngle.                  *)
(***************************************************************************)
\* the bare number the caller started from, as f64
BareValue == f64_from(bare.ty, bare.v)

\* C5 as stated: an Angle has no deg(), so the conversions applied to one
\* quantity never hold deg twice.
DegNeverAppliedTwice ==
    \A i, j \in 1..Len(conv) : (conv[i] = "deg" /\ conv[j] = "deg") => i = j

\* C6: x.deg() is the Angle holding x * PI / 180 and x.rad() the Angle
\* holding x, for a bare x; 180.deg() is PI.rad() and from_angle of it is
\* (-1, 0), the unit vector of PI.rad(); x.deg() differs from x.rad()
\* unless x is 0.
DegScalesRadKeeps ==
    /\ conv = <<"rad">> => (qty.ty = "Angle" /\ qty.v = BareValue)
    /\ conv = <<"deg">> =>
          /\ qty.ty = "Angle"
          /\ FMul(qty.v, F(180)) = FMul(BareValue, PI)
          /\ (qty = Angular_rad(bare)) <=> (BareValue = F(0))
          /\ BareValue = F(180) =>
                /\ qty = Angular_rad([ty |-> "f64", v |-> PI])
                /\ op = "from_angle" =>
                      /\ out = from_angle(Angular_rad([ty |-> "f64", v |-> PI]))
                      /\ out.val = [x |-> F(-1), y |-> F(0)]

\* from_angle(180.deg()) returned (-1, 0)
DegWitness ==
    /\ conv = <<"deg">>
    /\ bare = [ty |-> "i32", v |-> 180]
    /\ op = "from_angle"
    /\ arg = Angle(PI)
    /\ out = Ok([x |-> F(-1), y |-> F(0)])

\* C7: from_angle, turn and rotate read a bare number x as the Angle
\* x.rad(), and return for x what they return for x.rad().
BareNumberIsRadians ==
    (op \in {"from_angle", "turn", "rotate"} /\ arg.ty # "Angle") =>
        /\ Angle_from(arg) = Angular_rad(arg)
        /\ op = "from_angle" => out = from_angle(Angular_rad(arg))
        /\ op = "turn" => out = turn(before, Angular_rad(arg))
        /\ op = "rotate" => out = rotate(before, Angular_rad(arg))

\* (3, 4) rotated by the bare f64 PI / 2 is (-4, 3)
BareNumberWitness ==
    /\ op = "rotate"
    /\ conv = <<>>
    /\ arg = [ty |-> "f64", v |-> FDiv(PI, F(2))]
    /\ before = [x |-> F(3), y |-> F(4)]
    /\ out = Ok([x |-> F(-4), y |-> F(3)])

\* C11: v.turn(angle) is from_angle(angle) scaled by v.mag(): it has the
\* magnitude of v, is a non-negative multiple of from_angle(angle), is what
\* every vector of the magnitude of v turns to, and is (v.mag(), 0) for the
\* angle 0.
TurnSetsDirection ==
    op = "turn" =>
        /\ out = mul_owned_owned("f64", from_angle(arg).val, mag(before))
        /\ mag(out.val) = mag(before)
        /\ ~is_zero(before) => SameDirection(from_angle(arg).val, out.val)
        /\ \A w \in VeccInputs("f64") :
              (HasExactMag(w) /\ mag(w) = mag(before)) => turn(w, arg) = out
        /\ Angle_from(arg).v = F(0) => out.val = [x |-> mag(before), y |-> F(0)]

\* (3, 4) turned to PI / 2 is (0, 5)
TurnWitness ==
    /\ op = "turn"
    /\ before = [x |-> F(3), y |-> F(4)]
    /\ arg = [ty |-> "f64", v |-> FDiv(PI, F(2))]
    /\ out = Ok([x |-> F(0), y |-> F(5)])

\* C12: v.rotate(angle).rotate(-angle) is v.
RotateRoundTrip == op = "rotate_back" => out = Ok(before)

\* (3, 4) rotated by 90.deg() and back
RotateRoundTripWitness ==
    /\ op = "rotate_back"
    /\ conv = <<"deg">>
    /\ bare = [ty |-> "i32", v |-> 90]
    /\ before = [x |-> F(3), y |-> F(4)]
    /\ out = Ok([x |-> F(3), y |-> F(4)])

\* C13: v.rotate(angle) is (x cos - y sin, x sin + y cos) and has the
\* squared magnitude of v; v.rotate(PI) is -v and (x, y).rotate(PI / 2) is
\* (-y, x).
RotatePreservesMagnitude ==
    op = "rotate" =>
        LET a == Angle_from(arg).v
            x == before.x
            y == before.y
        IN  /\ out.val.x = FSub(FMul(x, f64_cos(a)), FMul(y, f64_sin(a)))
            /\ out.val.y = FAdd(FMul(x, f64_sin(a)), FMul(y, f64_cos(a)))
            /\ mag_squared(out.val) = mag_squared(before)
            /\ a = PI => out.val = [x |-> FNeg(x), y |-> FNeg(y)]
            /\ a = FDiv(PI, F(2)) => out.val = [x |-> FNeg(y), y |-> x]

\* (3, 4) rotated by PI is (-3, -4)
RotateWitness ==
    /\ op = "rotate"
    /\ before = [x |-> F(3), y |-> F(4)]
    /\ Angle_from(arg).v = PI
    /\ out = Ok([x |-> F(-3), y |-> F(-4)])

\* C14 as stated: for a non-zero normal n, v.reflect(n) is v - 2 * v.project(n),
\* the mirror image of v about the line perpendicular to n.
ReflectIsMirrorImage ==
    (op = "reflect" /\ ~is_zero(arg)) =>
        LET p == project(before, arg).val
        IN  out.val = [x |-> FSub(before.x, FMul(F(2), p.x)),
                       y |-> FSub(before.y, FMul(F(2), p.y))]

\* C15 as stated: a.reflect((0, 1)) is (-a.x, a.y).
ReflectAboutUpFlipsX ==
    (op = "reflect" /\ arg = [x |-> F(0), y |-> F(1)]) =>
        out.val = [x |-> FNeg(before.x), y |-> before.y]

\* C16: v.reflect(zero) and v.project(zero) return v, with no division by
\* zero.dot(zero) on the way.
ZeroReferenceReturnsSelf ==
    (op \in {"reflect", "project"} /\ is_zero(arg)) => out = Ok(before)

\* (3, 4) projected onto the zero vector
ZeroReferenceWitness ==
    /\ op = "project"
    /\ before = [x |-> F(3), y |-> F(4)]
    /\ arg = zero
    /\ out = Ok([x |-> F(3), y |-> F(4)])

\* the difference b.angle() - a.angle() of a call a.angle_to(b)
RawAngle == FSub(angle(arg), angle(before))

\* r differs from the raw difference by a whole number of turns
WholeTurnsApart(r) == FDiv(FSub(r, RawAngle), FMul(F(2), PI)).d = 1

\* C17 as stated: a.angle_to(b) is in (-PI, PI] and differs from
\* b.angle() - a.angle() by a whole number of turns.
AngleToInHalfOpenInterval ==
    op = "angle_to" =>
        /\ FGt(out.val, FNeg(PI))
        /\ FLe(out.val, PI)
        /\ WholeTurnsApart(out.val)

\* C17: a.angle_to(b) is in [-PI, PI] and differs from b.angle() - a.angle()
\* by a whole number of turns; it is -PI exactly when the raw difference is
\* -PI; for a at angle 0 and b at angle PI + PI / 4 it is -(PI - PI / 4).
AngleToInClosedInterval ==
    op = "angle_to" =>
        /\ FGe(out.val, FNeg(PI))
        /\ FLe(out.val, PI)
        /\ WholeTurnsApart(out.val)
        /\ (out.val = FNeg(PI)) <=> (RawAngle = FNeg(PI))
        /\ (angle(before) = F(0) /\ ~is_zero(before) /\ arg = [x |-> F(-2), y |-> F(-2)])
              => out.val = FNeg(FSub(PI, FDiv(PI, F(4))))

\* from angle 3 PI / 4 to angle -3 PI / 4 the raw difference -3 PI / 2 is
\* wrapped to PI / 2
AngleToWitness ==
    /\ op = "angle_to"
    /\ before = [x |-> F(-3), y |-> F(3)]
    /\ arg = [x |-> F(-2), y |-> F(-2)]
    /\ out = Ok(FDiv(PI, F(2)))

\* the value-producing counterpart of the in-place call made, in the
\* ownership form f
ValueCounterpart(f) ==
    CASE op = "add_assign" -> vecc_add(f, elem, before, arg)
      [] op = "sub_assign" -> vecc_sub(f, elem, before, arg)
      [] op = "mul_assign" -> vecc_mul(f, elem, before, arg)
      [] op = "div_assign" -> vecc_div(f, elem, before, arg)
      [] op = "rem_assign" -> vecc_rem(f, elem, before, arg)
      [] op = "rem_assign_t" -> vecc_rem_t(f, elem, before, arg)
      [] op = "fecc_rem_assign" -> fecc_rem(f, before, arg)
      [] op = "fecc_rem_assign_f64" -> fecc_rem_f64(f, before, arg)

AssignOps ==
    {"add_assign", "sub_assign", "mul_assign", "div_assign", "rem_assign",
     "rem_assign_t", "fecc_rem_assign", "fecc_rem_assign_f64"}

\* C18: after a += b, a -= b, a *= s, a /= s or a %= m, with the right-hand
\* side owned or borrowed, a holds what a_old + b, a_old - b, a_old * s,
\* a_old / s, a_old % m return, and the in-place call panics exactly when
\* that operator does.
AssignAgreesWithOperator ==
    op \in AssignOps =>
        \A f \in Forms :
            /\ out.panic <=> ValueCounterpart(f).panic
            /\ ~out.panic => vec = ValueCounterpart(f).val

\* (3, -1) *= 2 through a borrowed scalar leaves (6, -2)
AssignWitness ==
    /\ op = "mul_assign"
    /\ form = "borrowed"
    /\ elem = "i32"
    /\ before = [x |-> 3, y |-> -1]
    /\ arg = 2
    /\ vec = [x |-> 6, y |-> -2]

\* C19: the vector built from a tuple (x, y) has the components x and y
\* and converts back to (x, y); the tuple of a vector v is (v.x, v.y) and
\* converts back to v.
TupleRoundTrip ==
    /\ op = "from_tuple" => (out.val.x = arg[1] /\ out.val.y = arg[2])
    /\ op = "from_tuple_into" => out.val = arg
    /\ op = "into_tuple" => out.val = <<before.x, before.y>>
    /\ op = "into_tuple_from" => out.val = before

\* (-2, 10) to a vector and back
TupleWitness ==
    /\ op = "from_tuple_into"
    /\ elem = "i32"
    /\ arg = <<-2, 10>>
    /\ out = Ok(<<-2, 10>>)

\* C20: a Vecc<U> converted into Vecc<T> with T other than U goes through
\* the component-wise impl, x to x and y to y by U -> T; converted into its
\* own component type it goes through the identity impl only and is
\* returned as it is.
CrossTypeConversion ==
    op = "vecc_from" =>
        /\ arg = elem => (form = "identity" /\ out.val = before)
        /\ arg # elem =>
              /\ form = "component"
              /\ arg = "i64" => out.val = [x |-> before.x, y |-> before.y]
              /\ arg = "f64" =>
                    /\ out.val.x = [n |-> before.x, d |-> 1]
                    /\ out.val.y = [n |-> before.y, d |-> 1]

\* Vecc<i32> (3, -4) converted into Vecc<f64>
CrossTypeWitness ==
    /\ op = "vecc_from"
    /\ elem = "i32"
    /\ arg = "f64"
    /\ form = "component"
    /\ before = [x |-> 3, y |-> -4]
    /\ out = Ok([x |-> F(3), y |-> F(-4)])

\* C21: round, floor and ceil act on each component on its own and return
\* integers: floor the greatest integer <= the component, ceil the least
\* integer >= it, round the nearest integer with a tie going away from zero;
\* floor <= round <= ceil, ceil - floor <= 1, and all three are the
\* component when it is an integer.
RoundFloorCeil ==
    op \in {"round", "floor", "ceil"} =>
        \A c \in Comps :
            LET p == before[c]
                r == out.val[c]
                lo == floor(before).val[c]
                hi == ceil(before).val[c]
                mid == round(before).val[c]
                half == Frac(1, 2)
            IN  /\ r \in Int
                /\ op = "floor" => (FLe(F(r), p) /\ FLt(p, F(r + 1)))
                /\ op = "ceil" => (FLt(F(r - 1), p) /\ FLe(p, F(r)))
                /\ op = "round" =>
                      /\ FLe(FAbs(FSub(p, F(r))), half)
                      /\ FAbs(FSub(p, F(r))) = half => FGt(FAbs(F(r)), FAbs(p))
                /\ lo <= mid
                /\ mid <= hi
                /\ hi - lo <= 1
                /\ p.d = 1 => (lo = p.n /\ mid = p.n /\ hi = p.n)

\* (-1/2, 31/10) rounded to (-1, 3)
RoundWitness ==
    /\ op = "round"
    /\ before = [x |-> Frac(-1, 2), y |-> Frac(31, 10)]
    /\ out = Ok([x |-> -1, y |-> 3])

\* the sum, the difference, the product and the negation of two components
\* of the caller's type
CompAdd(p, q) == T_add(elem, p, q).val

CompSub(p, q) == T_sub(elem, p, q).val

CompMul(p, q) == T_mul(elem, p, q).val

CompZero == Component(elem, 0)

\* C22: a.dot(b) is a.x * b.x + a.y * b.y and a.cross(b) is
\* a.x * b.y - a.y * b.x; dot is commutative, cross is antisymmetric, and
\* a.cross(a) is zero.
DotAndCross ==
    /\ op = "dot" =>
          /\ out.val = CompAdd(CompMul(before.x, arg.x), CompMul(before.y, arg.y))
          /\ out.val = vecc_dot(elem, arg, before).val
    /\ op = "cross" =>
          /\ out.val = CompSub(CompMul(before.x, arg.y), CompMul(before.y, arg.x))
          /\ out.val = CompSub(CompZero, vecc_cross(elem, arg, before).val)
          /\ arg = before => out.val = CompZero

\* (3, 4).cross((2, 10)) is 3 * 10 - 4 * 2
CrossWitness ==
    /\ op = "cross"
    /\ elem = "i32"
    /\ before = [x |-> 3, y |-> 4]
    /\ arg = [x |-> 2, y |-> 10]
    /\ out = Ok(22)

ElementWiseMulDiv ==
    /\ op = "mul_vecc" =>
          /\ "val" \in DOMAIN out
          /\ out.val = [x |-> CompMul(before.x, arg.x), y |-> CompMul(before.y, arg.y)]
    /\ op = "div_vecc" =>
          /\ ~out.panic => "val" \in DOMAIN out
          /\ "val" \in DOMAIN out =>
                out.val = [x |-> T_div(elem, before.x, arg.x).val,
                           y |-> T_div(elem, before.y, arg.y).val]

\* the order of two components of the caller's type
CompLe(p, q) == IF elem = "i32" THEN p <= q ELSE FLe(p, q)

\* the call the caller made, made again on other vectors
MinMaxClampOf(v, a1, a2) ==
    CASE op = "min" -> vecc_min(v, a1)
      [] op = "max" -> vecc_max(v, a1)
      [] op = "clamp" -> vecc_clamp(v, a1, a2)
      [] op = "fecc_min" -> fecc_min(v, a1)
      [] op = "fecc_max" -> fecc_max(v, a1)
      [] op = "fecc_clamp" -> fecc_clamp(v, a1, a2)

\* a vector with one component of v and the other zero
Only(c, v) ==
    IF v = NoArg THEN NoArg
    ELSE IF c = "x" THEN [x |-> v.x, y |-> CompZero]
    ELSE [x |-> CompZero, y |-> v.y]

\* C25: min, max and clamp work on each component on its own, for Vecc<T>
\* with T: Ord and for Fecc: min returns the smaller and max the larger of
\* the two components, and with lo <= hi clamp returns a component
\* within [lo, hi] that is the component of v when that lies inside.  The x
\* of the result depends on the x of the inputs only, and the y on the y.
MinMaxClampComponentWise ==
    /\ op \in {"min", "fecc_min"} =>
          \A c \in Comps :
              /\ out.val[c] \in {before[c], arg[c]}
              /\ CompLe(out.val[c], before[c])
              /\ CompLe(out.val[c], arg[c])
    /\ op \in {"max", "fecc_max"} =>
          \A c \in Comps :
              /\ out.val[c] \in {before[c], arg[c]}
              /\ CompLe(before[c], out.val[c])
              /\ CompLe(arg[c], out.val[c])
    /\ (op \in {"clamp", "fecc_clamp"} /\ \A c \in Comps : CompLe(arg[c], arg2[c])) =>
          /\ ~out.panic
          /\ \A c \in Comps :
                /\ CompLe(arg[c], out.val[c])
                /\ CompLe(out.val[c], arg2[c])
                /\ (CompLe(arg[c], before[c]) /\ CompLe(before[c], arg2[c]))
                      => out.val[c] = before[c]
    /\ (op \in {"min", "max", "clamp", "fecc_min", "fecc_max", "fecc_clamp"}
            /\ ~out.panic) =>
          \A c \in Comps :
              LET alone == MinMaxClampOf(Only(c, before), Only(c, arg), Only(c, arg2))
              IN  ~alone.panic /\ alone.val[c] = out.val[c]

\* (3, -4).clamp((-1, -1), (1, 0)) is (1, -1)
ClampWitness ==
    /\ op = "clamp"
    /\ before = [x |-> 3, y |-> -4]
    /\ arg = [x |-> -1, y |-> -1]
    /\ arg2 = [x |-> 1, y |-> 0]
    /\ out = Ok([x |-> 1, y |-> -1])

\* C26: for a non-zero w, p = v.project(w) is the orthogonal projection of v
\* onto the line of w: p is parallel to w (p.cross(w) is 0), v - p is
\* perpendicular to w ((v - p).dot(w) is 0), and projecting p again returns p.
ProjectIsOrthogonal ==
    /\ (op = "project" /\ ~is_zero(arg)) =>
          LET p == out.val
              rest == sub_owned_owned("f64", before, p).val
          IN  /\ cross(p, arg) = F(0)
              /\ dot(rest, arg) = F(0)
    /\ (op = "project_again" /\ ~is_zero(arg)) =>
          /\ out = project(before, arg)
          /\ cross(out.val, arg) = F(0)

\* (3, 4) projected onto (2, 2) is (7/2, 7/2), and so is (7/2, 7/2)
ProjectWitness ==
    /\ op = "project_again"
    /\ before = [x |-> F(3), y |-> F(4)]
    /\ arg = [x |-> F(2), y |-> F(2)]
    /\ out = Ok([x |-> Frac(7, 2), y |-> Frac(7, 2)])

\* C27: for a non-zero n, v.reflect(n) has the squared magnitude of v, and
\* reflecting it about n again returns v.
ReflectIsInvolution ==
    (op = "reflect" /\ ~is_zero(arg)) =>
        /\ mag_squared(out.val) = mag_squared(before)
        /\ reflect(out.val, arg) = Ok(before)

\* b is k * a for some k >= 0
NonNegativeMultiple(a, b) ==
    /\ cross(a, b) = F(0)
    /\ FGe(dot(a, b), F(0))
    /\ is_zero(a) => is_zero(b)

\* C28 as stated: for every v and every L, zero and negative included,
\* v.limit(L) is no longer than v and is a non-negative multiple of v.
LimitNeverGrowsForEveryLimit ==
    op = "limit" =>
        /\ FLe(mag(out.val), mag(before))
        /\ NonNegativeMultiple(before, out.val)

\* C28: for every v and every L >= 0, v.limit(L) is no longer than v and is
\* a non-negative multiple of v.  For L < 0 a non-zero v is scaled by
\* L / v.mag(): the result points the opposite way and has magnitude -L,
\* which is more than v.mag() when -L > v.mag(); the zero vector with L < 0
\* gives NaN components.
LimitNeverGrows ==
    op = "limit" =>
        /\ FGe(arg, F(0)) =>
              /\ FLe(mag(out.val), mag(before))
              /\ NonNegativeMultiple(before, out.val)
        /\ (FLt(arg, F(0)) /\ ~is_zero(before)) =>
              /\ out.val = mul_owned_owned("f64", before, FDiv(arg, mag(before))).val
              /\ OppositeDirection(before, out.val)
              /\ mag(out.val) = FNeg(arg)
              /\ FGt(FNeg(arg), mag(before)) => FGt(mag(out.val), mag(before))
        /\ (FLt(arg, F(0)) /\ is_zero(before)) =>
              (IsNaN(out.val.x) /\ IsNaN(out.val.y))

\* (0, 1) limited to -2 is (0, -2): longer than (0, 1) and reversed
LimitNegativeWitness ==
    /\ op = "limit"
    /\ before = [x |-> F(0), y |-> F(1)]
    /\ arg = F(-2)
    /\ out = Ok([x |-> F(0), y |-> F(-2)])

(***************************************************************************)
(* Properties of the example simulations, checked of SpecEngine.           *)
(***************************************************************************)
\* C29: after every Vehicle::step, whatever the force and for dt >= 0, the
\* velocity is no longer than MAX_VELOCITY, the force that was applied is no
\* longer than MAX_FORCE, and the position has moved by the new velocity
\* times dt.
VehicleStepCaps ==
    /\ FLe(mag(vehicle.velocity), F(MAX_VELOCITY))
    /\ op = "redraw" =>
          /\ FLe(mag(Vehicle_step_force(arg)), F(MAX_FORCE))
          /\ NonNegativeMultiple(arg, Vehicle_step_force(arg))
          /\ sub_owned_owned("f64", vehicle.position, before.position).val
                = mul_owned_owned("f64", vehicle.velocity, arg2).val

\* a vehicle at rest pushed by (300, 400) for half a second: the force is
\* limited to (60, 80), the velocity (30, 40) to (12, 16), and the vehicle
\* moves by (6, 8)
VehicleStepWitness ==
    /\ op = "redraw"
    /\ before = Vehicle_new(F(10), F(50))
    /\ arg = Vecc_new(F(300), F(400))
    /\ arg2 = Frac(1, 2)
    /\ vehicle = [position |-> Vecc_new(F(16), F(58)), velocity |-> Vecc_new(F(12), F(16))]

\* the pixel that holds a position
PixelOf(position) == floor(position).val

OnScreen(px) == px.x \in 0..(WIDTH - 1) /\ px.y \in 0..(HEIGHT - 1)

\* C30: draw_point writes inside the frame buffer only: with (x, y) the floor
\* of the position, it writes the 4 bytes at offset 4 * (x + y * WIDTH) when
\* 0 <= x < WIDTH and 0 <= y < HEIGHT, all of them inside the buffer, and
\* writes nothing for any other position.
DrawPointInsideBuffer ==
    op = "redraw" =>
        LET px == PixelOf(vehicle.position)
            offset == 4 * (px.x + px.y * WIDTH)
        IN  /\ ~out.panic
            /\ pixels \subseteq 0..(WIDTH * HEIGHT * 4 - 1)
            /\ OnScreen(px) => pixels = offset..(offset + 3)
            /\ ~OnScreen(px) => pixels = {}

\* a vehicle that moved to (16, 58): the four bytes of pixel 16 + 58 * 64
DrawPointWitness ==
    /\ op = "redraw"
    /\ vehicle.position = Vecc_new(F(16), F(58))
    /\ pixels = 14912..14915

====
